---------------------------- MODULE Spec2Model ----------------------------
(***************************************************************************)
(* A model of the Excel audit application (src/app.py): the column-label   *)
(* helper, the full-stop and title-case rules, the cell scan of            *)
(* validate_audit_sheet with its twelve rules, and the two Flask routes    *)
(* that keep the last result in app.config.                                *)
(*                                                                         *)
(* Text is a sequence of characters; a character is a one-element token    *)
(* ("A", " ", "TAB", "e_acute", "cjk", ...).  Python's character tests     *)
(* (isalpha, isupper, isspace, ord) are tables over these tokens.          *)
(***************************************************************************)
EXTENDS Integers, Sequences, FiniteSets, TLC

VARIABLES
    columns,          \* df.columns: the header texts, left to right
    rows,             \* the data rows of df: rows[r][c] is a cell value
    pc,               \* position of the run / request in its code
    row_idx,          \* 0-based row of the next cell to scan
    col_idx,          \* 0-based column of the next cell to scan
    breadcrumb_col,   \* breadcrumb_col_name, as a column position (0 = None)
    errors,           \* validate_audit_sheet's local list `errors`
    summary,          \* validate_audit_sheet's local dict `summary`
    breadcrumb_seen,  \* validate_audit_sheet's local dict `breadcrumb_seen`
    last_cell,        \* what the latest loop body did (observation only)
    runs,             \* results returned by the runs completed so far
    LAST_ERRORS,      \* app.config["LAST_ERRORS"]
    LAST_FILENAME,    \* app.config["LAST_FILENAME"]
    response,         \* what the latest request rendered or exported
    uploads,          \* the latest upload whose validation completed (observation)
    arg,              \* argument of the pure helper under test
    ret               \* its return value

vars == << columns, rows, pc, row_idx, col_idx, breadcrumb_col, errors,
           summary, breadcrumb_seen, last_cell, runs, LAST_ERRORS,
           LAST_FILENAME, response, uploads, arg, ret >>

scanVars == << columns, rows, pc, row_idx, col_idx, breadcrumb_col, errors,
               summary, breadcrumb_seen, last_cell, runs >>
scanVarsButPc == << columns, rows, row_idx, col_idx, breadcrumb_col, errors,
                    summary, breadcrumb_seen, last_cell, runs >>
webVars  == << LAST_ERRORS, LAST_FILENAME, response, uploads >>
funVars  == << arg, ret >>

-----------------------------------------------------------------------------
(* Characters *)

UpperSeq == << "A","B","C","D","E","F","G","H","I","J","K","L","M",
               "N","O","P","Q","R","S","T","U","V","W","X","Y","Z" >>
LowerSeq == << "a","b","c","d","e","f","g","h","i","j","k","l","m",
               "n","o","p","q","r","s","t","u","v","w","x","y","z" >>

Range(f) == { f[i] : i \in DOMAIN f }

AsciiUpper == Range(UpperSeq)
AsciiLower == Range(LowerSeq)

\* str.isupper / str.islower / str.isalpha / str.isspace on one character.
\* "E_ACUTE"/"e_acute" are cased non-ASCII letters, "cjk" is a letter with
\* no case (isalpha, neither isupper nor islower).
IsUpper(ch) == ch \in AsciiUpper \cup {"E_ACUTE"}
IsLower(ch) == ch \in AsciiLower \cup {"e_acute"}
IsAlpha(ch) == IsUpper(ch) \/ IsLower(ch) \/ ch = "cjk"
IsSpace(ch) == ch \in {" ", "TAB"}
\* ord(ch) > 127
NonAscii(ch) == ch \in {"E_ACUTE", "e_acute", "cjk"}

\* str.lower on one character
LowerChar(ch) ==
    IF ch \in AsciiUpper
    THEN LowerSeq[CHOOSE i \in DOMAIN UpperSeq : UpperSeq[i] = ch]
    ELSE IF ch = "E_ACUTE" THEN "e_acute" ELSE ch

-----------------------------------------------------------------------------
(* Python string methods used by app.py *)

Lower(s) == [ i \in DOMAIN s |-> LowerChar(s[i]) ]

RECURSIVE LStrip(_)
LStrip(s) == IF s # << >> /\ IsSpace(Head(s)) THEN LStrip(Tail(s)) ELSE s

\* text.rstrip(): trailing whitespace removed
RECURSIVE RStrip(_)
RStrip(s) ==
    IF s # << >> /\ IsSpace(s[Len(s)]) THEN RStrip(SubSeq(s, 1, Len(s) - 1))
    ELSE s

\* text.rstrip(" "): trailing U+0020 removed, other whitespace kept
RECURSIVE RStripSpace(_)
RStripSpace(s) ==
    IF s # << >> /\ s[Len(s)] = " " THEN RStripSpace(SubSeq(s, 1, Len(s) - 1))
    ELSE s

\* text.strip()
Strip(s) == LStrip(RStrip(s))

\* sub in text
Contains(s, sub) ==
    \E i \in 1 .. (Len(s) - Len(sub) + 1) : SubSeq(s, i, i + Len(sub) - 1) = sub

\* text.count(ch)
Count(s, ch) == Cardinality({ i \in DOMAIN s : s[i] = ch })

\* text.endswith(ch)
EndsWith(s, ch) == s # << >> /\ s[Len(s)] = ch

\* text.split(): the maximal runs of non-whitespace, left to right
RECURSIVE SplitAcc(_, _, _)
SplitAcc(s, cur, acc) ==
    IF s = << >>
    THEN IF cur = << >> THEN acc ELSE Append(acc, cur)
    ELSE IF IsSpace(Head(s))
         THEN SplitAcc(Tail(s), << >>,
                       IF cur = << >> THEN acc ELSE Append(acc, cur))
         ELSE SplitAcc(Tail(s), Append(cur, Head(s)), acc)

Split(s) == SplitAcc(s, << >>, << >>)

\* str(n) for a non-negative integer
DigitSeq == << "0","1","2","3","4","5","6","7","8","9" >>
RECURSIVE Decimal(_)
Decimal(n) ==
    IF n < 10 THEN << DigitSeq[n + 1] >>
    ELSE Append(Decimal(n \div 10), DigitSeq[(n % 10) + 1])

-----------------------------------------------------------------------------
(* Helper: Excel column index -> letter *)

Reverse(s) == [ i \in DOMAIN s |-> s[Len(s) + 1 - i] ]

\* the while loop: idx, rem = divmod(idx - 1, 26); letters.append(chr(65 + rem))
RECURSIVE col_letters_loop(_, _)
col_letters_loop(idx, letters) ==
    IF idx > 0
    THEN col_letters_loop((idx - 1) \div 26,
                          Append(letters, UpperSeq[((idx - 1) % 26) + 1]))
    ELSE letters

\* the same helper with the "- 1" of the divmod dropped (plain base 26)
RECURSIVE col_letters_loop_plain(_, _)
col_letters_loop_plain(idx, letters) ==
    IF idx > 0
    THEN col_letters_loop_plain(idx \div 26,
                                Append(letters, UpperSeq[(idx % 26) + 1]))
    ELSE letters

col_index_to_letter_plain(idx_zero_based) ==
    Reverse(col_letters_loop_plain(idx_zero_based + 1, << >>))

col_index_to_letter(idx_zero_based) ==
    Reverse(col_letters_loop(idx_zero_based + 1, << >>))

-----------------------------------------------------------------------------
(* Full-stop rule (Rule 8) *)

has_full_stop_issue(text) == EndsWith(RStrip(text), ".")

-----------------------------------------------------------------------------
(* Title-case rule (Rule 9) *)

None == "None"

\* the first character of word with isalpha(), or None
RECURSIVE first_alpha_char(_)
first_alpha_char(word) ==
    IF word = << >> THEN None
    ELSE IF IsAlpha(Head(word)) THEN Head(word)
    ELSE first_alpha_char(Tail(word))

is_title_case_issue(text) ==
    LET stripped == Strip(text)
        words    == Split(stripped)
    IN  IF Len(words) < 2 THEN FALSE
        ELSE LET first_ch == first_alpha_char(words[1])
             IN  IF first_ch # None /\ ~IsUpper(first_ch) THEN TRUE
                 ELSE \E k \in 2 .. Len(words) :
                          LET ch == first_alpha_char(words[k])
                          IN  ch # None /\ IsUpper(ch)

-----------------------------------------------------------------------------
(* Core validation logic: the values, messages and counters *)

\* a blank cell as pandas delivers it (pd.isna(value) holds); no text is this
NaN == << "NaN" >>

\* text = "" if pd.isna(value) else str(value)
cell_text(value) == IF value = NaN THEN << >> ELSE value

\* breadcrumb_col_name = None
NoColumn == << "None" >>

BREADCRUMBS == << "b","r","e","a","d","c","r","u","m","b","s" >>

SummaryKeys ==
    << "Trailing spaces", "Double spaces", "Colons", "Spaces after (",
       "Spaces before )", "Spaces around -", "Unbalanced brackets",
       "Full stop issues", "Title case issues", "Accents / non-ASCII",
       "Breadcrumb ends with >", "Duplicate breadcrumbs" >>

\* the dict literal `summary = {...: 0}`
summary_zero == [ k \in Range(SummaryKeys) |-> 0 ]

\* an entry of a cell's `issues` list; ref is the address inside the
\* f-string of the duplicate message and empty in every other message
Msg(text) == [ text |-> text, ref |-> << >> ]
DuplicateMsg(first_cell) ==
    [ text |-> "Duplicate breadcrumb (also in {first_cell})", ref |-> first_cell ]
EndsWithGtMsg == Msg("Breadcrumb ends with '>'")

\* the loop that detects the Breadcrumbs column: the first column whose
\* str(col).strip().lower() is "breadcrumbs", else None
detect_breadcrumb_col(cols) ==
    LET hits == { i \in DOMAIN cols : Lower(Strip(cols[i])) = BREADCRUMBS }
    IN  IF hits = {} THEN NoColumn
        ELSE cols[CHOOSE i \in hits : \A j \in hits : i <= j]

\* if text.strip() == "": continue
is_blank_raw(text) == text = << >>
is_blank(text) == Strip(text) = << >>

\* cell_address = f"{col_index_to_letter(col_idx)}{row_idx + 2}"
cell_address_of(r, c) == col_index_to_letter(c) \o Decimal(r + 2)

\* the condition of the Breadcrumbs branch; a variant that takes the path
\* column from a fixed position instead of the detected name, and one that
\* matches every column's name instead of comparing with the detected one
is_breadcrumb_cell_fixed(bc_name, col_name, c) == c = 0
is_breadcrumb_cell_any_match(bc_name, col_name, c) ==
    Lower(Strip(col_name)) = BREADCRUMBS
is_breadcrumb_cell(bc_name, col_name, c) ==
    bc_name # NoColumn /\ col_name = bc_name

\* norm = clean_text
breadcrumb_norm(clean_text) == clean_text

\* summary[key] += 1, and a variant that counts a cell's hit twice
bump2(s, key) == [ s EXCEPT ![key] = @ + 2 ]
bump(s, key) == [ s EXCEPT ![key] = @ + 1 ]

\* Rule 12's registry update: insert on a miss, leave alone on a hit; and a
\* variant that stores the latest cell on a hit too
seen_after_overwrite(seen, norm, cell_address) == (norm :> cell_address) @@ seen
seen_after(seen, norm, cell_address) ==
    IF norm \in DOMAIN seen THEN seen ELSE (norm :> cell_address) @@ seen

\* Rules 1-10 in the order of the code: condition, message, counter
general_rules(text) ==
    << [ hit |-> text # RStripSpace(text),
         msg |-> "Trailing spaces found", key |-> "Trailing spaces" ],
       [ hit |-> Contains(text, << " ", " " >>),
         msg |-> "Double spaces detected", key |-> "Double spaces" ],
       [ hit |-> Contains(text, << ":" >>),
         msg |-> "Contains colon ':'", key |-> "Colons" ],
       [ hit |-> Contains(text, << "(", " " >>),
         msg |-> "Space after '('", key |-> "Spaces after (" ],
       [ hit |-> Contains(text, << " ", ")" >>),
         msg |-> "Space before ')'", key |-> "Spaces before )" ],
       [ hit |-> Contains(text, << " ", "-" >>) \/ Contains(text, << "-", " " >>),
         msg |-> "Space around '-'", key |-> "Spaces around -" ],
       [ hit |-> Count(text, "(") # Count(text, ")"),
         msg |-> "Unbalanced brackets", key |-> "Unbalanced brackets" ],
       [ hit |-> has_full_stop_issue(text),
         msg |-> "Ends with full stop", key |-> "Full stop issues" ],
       [ hit |-> is_title_case_issue(text),
         msg |-> "Title case detected", key |-> "Title case issues" ],
       [ hit |-> \E i \in DOMAIN text : NonAscii(text[i]),
         msg |-> "Contains accented or non-ASCII characters",
         key |-> "Accents / non-ASCII" ] >>

\* the ten `if` statements run in order over (issues, summary)
RECURSIVE apply_rules(_, _, _)
apply_rules(rules, issues, s) ==
    IF rules = << >> THEN [ issues |-> issues, summary |-> s ]
    ELSE LET rule == Head(rules)
         IN  IF rule.hit
             THEN apply_rules(Tail(rules), Append(issues, Msg(rule.msg)),
                              bump(s, rule.key))
             ELSE apply_rules(Tail(rules), issues, s)

\* if issues: errors.append({"cell": ..., "value": text, "issues": issues})
store_always(errs, cell_address, text, issues) ==
    Append(errs, [ cell |-> cell_address, value |-> text, issues |-> issues ])
store(errs, cell_address, text, issues) ==
    IF issues # << >>
    THEN Append(errs, [ cell |-> cell_address, value |-> text, issues |-> issues ])
    ELSE errs

\* One pass of the inner loop body for the cell at (r, c): acc holds errors,
\* summary and breadcrumb_seen; the result also says what the pass did.
loop_body(acc, cols, bc_name, grid, r, c) ==
    LET value        == grid[r + 1][c + 1]
        col_name     == cols[c + 1]
        text         == cell_text(value)
        clean_text   == Strip(text)
        cell_address == cell_address_of(r, c)
        seen         == acc.breadcrumb_seen
        skip         == [ errors |-> acc.errors, summary |-> acc.summary,
                          breadcrumb_seen |-> seen,
                          did |-> [ row |-> r, col |-> c, text |-> text,
                                    branch |-> "skip", cell |-> cell_address,
                                    issues |-> << >> ] ]
    IN  IF is_blank(text) THEN skip
        ELSE IF is_breadcrumb_cell(bc_name, col_name, c)
        THEN LET norm == breadcrumb_norm(clean_text)
                 dup  == norm # << >> /\ norm \in DOMAIN seen
                 i1   == IF dup THEN << DuplicateMsg(seen[norm]) >> ELSE << >>
                 s1   == IF dup THEN bump(acc.summary, "Duplicate breadcrumbs")
                         ELSE acc.summary
                 seen1 == IF norm # << >>
                          THEN seen_after(seen, norm, cell_address) ELSE seen
                 gt   == EndsWith(norm, ">")
                 i2   == IF gt THEN Append(i1, EndsWithGtMsg) ELSE i1
                 s2   == IF gt THEN bump(s1, "Breadcrumb ends with >") ELSE s1
             IN  [ errors |-> store(acc.errors, cell_address, text, i2),
                   summary |-> s2,
                   breadcrumb_seen |-> seen1,
                   did |-> [ row |-> r, col |-> c, text |-> text,
                             branch |-> "breadcrumb", cell |-> cell_address,
                             issues |-> i2 ] ]
        ELSE LET out == apply_rules(general_rules(text), << >>, acc.summary)
             IN  [ errors |-> store(acc.errors, cell_address, text, out.issues),
                   summary |-> out.summary,
                   breadcrumb_seen |-> seen,
                   did |-> [ row |-> r, col |-> c, text |-> text,
                             branch |-> "general", cell |-> cell_address,
                             issues |-> out.issues ] ]

\* validate_audit_sheet as one call: the loop body folded over the grid in
\* row-major order (what index() gets back)
RECURSIVE scan_from(_, _, _, _, _, _)
scan_from(acc, cols, bc_name, grid, r, c) ==
    IF r >= Len(grid) THEN acc
    ELSE CHOOSE result \in
             { IF c + 1 < Len(cols)
               THEN scan_from([ errors |-> out.errors, summary |-> out.summary,
                                breadcrumb_seen |-> out.breadcrumb_seen ],
                              cols, bc_name, grid, r, c + 1)
               ELSE scan_from([ errors |-> out.errors, summary |-> out.summary,
                                breadcrumb_seen |-> out.breadcrumb_seen ],
                              cols, bc_name, grid, r + 1, 0) :
               out \in { loop_body(acc, cols, bc_name, grid, r, c) } } : TRUE

\* the locals a call starts from; a variant in which the registry is a
\* module-level dict that outlives the call
locals_keep_registry(old_seen) ==
    [ errors |-> << >>, summary |-> summary_zero, breadcrumb_seen |-> old_seen ]
new_locals(old_seen) ==
    [ errors |-> << >>, summary |-> summary_zero, breadcrumb_seen |-> << >> ]

validate_audit_sheet(cols, grid) ==
    LET out == IF cols = << >> THEN new_locals(<< >>)
               ELSE scan_from(new_locals(<< >>), cols,
                              detect_breadcrumb_col(cols), grid, 0, 0)
    IN  [ errors |-> out.errors, summary |-> out.summary ]

-----------------------------------------------------------------------------
(* Inputs of the scan *)

MaxRows == 3   \* rows of a grid
MaxRuns == 3   \* calls of validate_audit_sheet in a row

T_AB    == << "A", " ", ">", " ", "B" >>                      \* "A > B"
T_ab2   == << "a", " ", " ", ">", " ", " ", "b" >>            \* "a  >  b"
T_ABsp  == << "A", " ", ">", " ", "B", " " >>                 \* "A > B "
T_Cgt   == << "C", " ", ">" >>                                \* "C >"
T_hw    == << "h","e","l","l","o"," ","w","o","r","l","d" >>  \* "hello world"
T_Hw    == << "H","e","l","l","o"," ","w","o","r","l","d" >>  \* "Hello world"
T_HW    == << "H","e","l","l","o"," ","W","o","r","l","d" >>  \* "Hello World"
\* "Hello  World "
T_HdW   == << "H","e","l","l","o"," "," ","W","o","r","l","d"," " >>
\* "Ab ( c: - d )."
T_mix   == << "A","b"," ","("," ","c",":"," ","-"," ","d"," ",")","." >>
T_unb   == << "(", "e_acute" >>                               \* "(é"
T_ws    == << " " >>                                          \* " "
T_tab   == << "TAB" >>                                        \* "\t"

H_Name  == << "N","a","m","e" >>
H_Notes == << "N","o","t","e","s" >>
H_Bread == << "B","r","e","a","d","c","r","u","m","b","s" >>
H_bread == << " ","b","r","e","a","d","C","r","u","m","b","s"," " >>
H_BREAD == << "B","R","E","A","D","C","R","U","M","B","S" >>

\* df.columns: pandas keeps the header names distinct
HeaderPool ==
    { << H_Bread, H_Name >>, << H_Name, H_bread >>,
      << H_Name, H_Notes >>, << H_BREAD, H_Bread >> }

RowPool ==
    { << T_AB, T_Hw >>, << T_ab2, T_HW >>, << T_ABsp, T_HdW >>,
      << T_Cgt, T_mix >>, << NaN, T_ws >>, << T_hw, T_unb >>,
      << T_tab, T_AB >> }

\* the grids of at most n rows drawn from pool
RECURSIVE GridsOf(_, _)
GridsOf(pool, n) ==
    IF n = 0 THEN { << >> }
    ELSE LET shorter == GridsOf(pool, n - 1)
         IN  shorter \cup
             { Append(g, row) : g \in { h \in shorter : Len(h) = n - 1 },
                                row \in pool }

Grids == GridsOf(RowPool, MaxRows)

\* the smaller inputs of the repeated calls
RunHeaderPool == { << H_Bread, H_Name >>, << H_Name, H_Notes >> }
RunGrids ==
    { << << T_AB, T_Hw >>, << T_AB, T_HW >> >>,
      << << T_ABsp, T_HdW >> >>,
      << << T_Cgt, T_mix >>, << T_AB, T_Hw >> >> }

NoFile == << "None" >>
NoResponse == [ route |-> "none" ]
NoCell == [ row |-> 0, col |-> 0, text |-> << >>, branch |-> "none",
            cell |-> << >>, issues |-> << >> ]

-----------------------------------------------------------------------------
(* validate_audit_sheet, step by step *)

\* lines 74-97: the fresh locals and the Breadcrumbs column
Begin ==
    /\ pc = "call"
    /\ LET loc == new_locals(breadcrumb_seen)
       IN  /\ errors' = loc.errors
           /\ summary' = loc.summary
           /\ breadcrumb_seen' = loc.breadcrumb_seen
    /\ breadcrumb_col' = detect_breadcrumb_col(columns)
    /\ row_idx' = 0
    /\ col_idx' = 0
    /\ last_cell' = NoCell
    /\ pc' = "scan"
    /\ UNCHANGED << columns, rows, runs, webVars, funVars >>

\* lines 99-189: one pass of the inner loop
ScanCell ==
    /\ pc = "scan"
    /\ row_idx < Len(rows)
    /\ LET out == loop_body([ errors |-> errors, summary |-> summary,
                              breadcrumb_seen |-> breadcrumb_seen ],
                            columns, breadcrumb_col, rows, row_idx, col_idx)
       IN  /\ errors' = out.errors
           /\ summary' = out.summary
           /\ breadcrumb_seen' = out.breadcrumb_seen
           /\ last_cell' = out.did
    /\ IF col_idx + 1 < Len(columns)
       THEN col_idx' = col_idx + 1 /\ row_idx' = row_idx
       ELSE col_idx' = 0 /\ row_idx' = row_idx + 1
    /\ UNCHANGED << columns, rows, pc, breadcrumb_col, runs, webVars, funVars >>

\* line 191: return errors, summary
Return ==
    /\ pc = "scan"
    /\ row_idx >= Len(rows)
    /\ pc' = "done"
    /\ runs' = Append(runs, [ columns |-> columns, rows |-> rows,
                              errors |-> errors, summary |-> summary ])
    /\ UNCHANGED << columns, rows, row_idx, col_idx, breadcrumb_col, errors,
                    summary, breadcrumb_seen, last_cell, webVars, funVars >>

\* the caller calls validate_audit_sheet again, on any grid
NewCall ==
    /\ pc = "done"
    /\ Len(runs) < MaxRuns
    /\ \E cols \in RunHeaderPool, grid \in RunGrids :
           /\ columns' = cols
           /\ rows' = grid
    /\ pc' = "call"
    \* index() has stored the previous result before the next request
    /\ LAST_ERRORS' = runs[Len(runs)].errors
    /\ UNCHANGED << row_idx, col_idx, breadcrumb_col, errors, summary,
                    breadcrumb_seen, last_cell, runs, LAST_FILENAME, response,
                    uploads, funVars >>

InitIdle ==
    /\ row_idx = 0
    /\ col_idx = 0
    /\ breadcrumb_col = NoColumn
    /\ errors = << >>
    /\ summary = summary_zero
    /\ breadcrumb_seen = << >>
    /\ last_cell = NoCell
    /\ runs = << >>
    /\ LAST_ERRORS = << >>
    /\ LAST_FILENAME = NoFile
    /\ response = NoResponse
    /\ uploads = [ errors |-> << >>, filename |-> NoFile, latest_failed |-> FALSE ]
    /\ arg = << >>
    /\ ret = << >>

Init ==
    /\ InitIdle
    /\ pc = "call"
    /\ columns \in HeaderPool
    /\ rows \in Grids

Next == Begin \/ ScanCell \/ Return

Spec == Init /\ [][Next]_vars

InitRuns ==
    /\ InitIdle
    /\ pc = "call"
    /\ columns \in RunHeaderPool
    /\ rows \in RunGrids

NextRuns == Begin \/ ScanCell \/ Return \/ NewCall

SpecRuns == InitRuns /\ [][NextRuns]_vars

-----------------------------------------------------------------------------
(* Vocabulary of the properties of the scan *)

Scanning == pc \in {"scan", "done"}

\* the cells the loop has passed, as 0-based (row, column) pairs
Scanned ==
    IF ~Scanning THEN {}
    ELSE { rc \in (0 .. Len(rows) - 1) \X (0 .. Len(columns) - 1) :
             rc[1] < row_idx \/ (rc[1] = row_idx /\ rc[2] < col_idx) }

ScanPos(rc) == rc[1] * Len(columns) + rc[2]
TextAt(rc) == cell_text(rows[rc[1] + 1][rc[2] + 1])
NonEmpty(rc) == Strip(TextAt(rc)) # << >>
Addr(rc) == cell_address_of(rc[1], rc[2])

\* the columns whose name is "breadcrumbs" case-insensitively, and the one
\* that holds the path role: the leftmost of them
MatchingCols == { c \in 0 .. Len(columns) - 1 :
                    Lower(Strip(columns[c + 1])) = BREADCRUMBS }
IsPathCol(c) == c \in MatchingCols /\ \A d \in MatchingCols : c <= d
PathCols == { c \in MatchingCols : \A d \in MatchingCols : c <= d }
PathCells ==
    LET cols == PathCols
    IN  { rc \in Scanned : rc[2] \in cols /\ NonEmpty(rc) }
OtherCells ==
    LET cols == PathCols
    IN  { rc \in Scanned : rc[2] \notin cols /\ NonEmpty(rc) }

\* the registry key of a path cell: its trimmed text
Key(rc) == Strip(TextAt(rc))

\* the earliest of the path cells P holding the same value as rc
FirstOf(P, rc) ==
    LET same == { p \in P : Key(p) = Key(rc) }
    IN  CHOOSE p \in same : \A q \in same : ScanPos(p) <= ScanPos(q)

RecordsOf(rc) == { i \in DOMAIN errors : errors[i].cell = Addr(rc) }
IsDuplicateMsg(m) == m.text = DuplicateMsg(<< >>).text
\* the messages in the order the rules are evaluated
RuleOrder ==
    << "Trailing spaces found", "Double spaces detected", "Contains colon ':'",
       "Space after '('", "Space before ')'", "Space around '-'",
       "Unbalanced brackets", "Ends with full stop", "Title case detected",
       "Contains accented or non-ASCII characters",
       DuplicateMsg(<< >>).text, EndsWithGtMsg.text >>
RuleNo(m) == CHOOSE n \in DOMAIN RuleOrder : RuleOrder[n] = m.text
GeneralMsgTexts == { RuleOrder[n] : n \in 1 .. 10 }
PathMsgTexts == { RuleOrder[n] : n \in 11 .. 12 }

DuplicateMsgsOf(rc) ==
    { << i, k >> \in (DOMAIN errors) \X (DOMAIN RuleOrder) :
        /\ errors[i].cell = Addr(rc)
        /\ k \in DOMAIN errors[i].issues
        /\ IsDuplicateMsg(errors[i].issues[k]) }

\* the Summary counter of each message
CounterOf(m) == SummaryKeys[IF RuleNo(m) = 11 THEN 12
                            ELSE IF RuleNo(m) = 12 THEN 11 ELSE RuleNo(m)]

\* number of messages of category key in the issue list
RECURSIVE SumOver(_, _)
SumOver(f, S) ==
    IF S = {} THEN 0
    ELSE LET x == CHOOSE y \in S : TRUE IN f[x] + SumOver(f, S \ {x})

MessagesIn(key) ==
    SumOver([ i \in DOMAIN errors |->
                Cardinality({ k \in DOMAIN errors[i].issues :
                                CounterOf(errors[i].issues[k]) = key }) ],
            DOMAIN errors)

TotalMessages ==
    SumOver([ i \in DOMAIN errors |-> Len(errors[i].issues) ], DOMAIN errors)

\* collapse internal whitespace runs to single spaces, then case-fold
RECURSIVE JoinWords(_)
JoinWords(ws) ==
    IF ws = << >> THEN << >>
    ELSE IF Len(ws) = 1 THEN ws[1]
    ELSE ws[1] \o << " " >> \o JoinWords(Tail(ws))
Normalized(text) == Lower(JoinWords(Split(Strip(text))))

\* the messages the code's rule conditions select for a cell outside the
\* path column, in evaluation order
ExpectedGeneral(text) ==
    LET rules == general_rules(text)
        hits  == SelectSeq(rules, LAMBDA rule : rule.hit)
    IN  [ n \in DOMAIN hits |-> Msg(hits[n].msg) ]

\* the messages of a path cell: duplicate (naming the first holder of the
\* value) before ends-with-'>'
ExpectedPath(P, rc) ==
    LET f == FirstOf(P, rc)
    IN  (IF f # rc THEN << DuplicateMsg(Addr(f)) >> ELSE << >>)
        \o (IF EndsWith(Key(rc), ">") THEN << EndsWithGtMsg >> ELSE << >>)

\* P: the non-empty scanned cells of the path column
ExpectedIssues(P, rc) ==
    IF ~NonEmpty(rc) THEN << >>
    ELSE IF rc \in P THEN ExpectedPath(P, rc)
    ELSE ExpectedGeneral(TextAt(rc))

MsgTexts(issues) == [ k \in DOMAIN issues |-> issues[k].text ]

-----------------------------------------------------------------------------
(* C1 *)

\* C1 (as claimed): two non-empty path cells whose texts are equal after
\* trimming, collapsing whitespace runs and case-folding are duplicates: the
\* later one in scan order carries exactly one duplicate issue.
C1_NormalizedDuplicates ==
    LET P == PathCells
    IN  \A p \in P, q \in P :
            (ScanPos(p) < ScanPos(q)
                /\ Normalized(TextAt(p)) = Normalized(TextAt(q)))
            => Cardinality(DuplicateMsgsOf(q)) = 1

-----------------------------------------------------------------------------
(* C2 *)

\* C2 (as claimed): with no column named "breadcrumbs" the call fails fast:
\* no issue is ever reported and no result is returned.
C2_FailsFast ==
    (Scanning /\ MatchingCols = {}) => (errors = << >> /\ pc # "done")

\* C2 (amended): with no column named "breadcrumbs" the call raises nothing;
\* every non-empty cell of every column is scanned with general rules 1-10,
\* the registry stays empty and both path counters stay 0.
C2_ScansAsOrdinary ==
    (Scanning /\ MatchingCols = {}) =>
        /\ breadcrumb_col = NoColumn
        /\ breadcrumb_seen = << >>
        /\ summary["Duplicate breadcrumbs"] = 0
        /\ summary["Breadcrumb ends with >"] = 0
        /\ \A rc \in Scanned :
               LET want == IF NonEmpty(rc) THEN ExpectedGeneral(TextAt(rc))
                           ELSE << >>
               IN  IF want = << >> THEN RecordsOf(rc) = {}
                   ELSE /\ Cardinality(RecordsOf(rc)) = 1
                        /\ \A i \in RecordsOf(rc) : errors[i].issues = want
        /\ (pc = "done" => Scanned = (0 .. Len(rows) - 1) \X (0 .. Len(columns) - 1))

\* a completed call on a grid without a Breadcrumbs column that reported a
\* title-case issue for "hello world" in the first column and more
C2_Witness ==
    /\ pc = "done"
    /\ MatchingCols = {}
    /\ Len(errors) >= 2
    /\ \E rc \in Scanned :
           /\ rc[2] = 0
           /\ TextAt(rc) = T_hw
           /\ \E i \in RecordsOf(rc) :
                  MsgTexts(errors[i].issues) = << "Title case detected" >>

-----------------------------------------------------------------------------
(* C3 *)

\* C3: the registry maps each value (trimmed text) seen in the path column
\* to the address of the first cell holding it and is never overwritten; the
\* first holder carries no duplicate issue, every later holder exactly one,
\* naming the first holder; the duplicate counter is the number of non-empty
\* path cells minus the number of distinct values.
C3_FirstSeen ==
    LET P == PathCells
    IN  /\ DOMAIN breadcrumb_seen = { Key(rc) : rc \in P }
        /\ \A rc \in P :
               LET f    == FirstOf(P, rc)
                   dups == DuplicateMsgsOf(rc)
               IN  /\ breadcrumb_seen[Key(rc)] = Addr(f)
                   /\ IF rc = f THEN dups = {}
                      ELSE /\ Cardinality(dups) = 1
                           /\ \A ik \in dups :
                                  errors[ik[1]].issues[ik[2]]
                                      = DuplicateMsg(Addr(f))
        /\ summary["Duplicate breadcrumbs"] =
               Cardinality(P) - Cardinality({ Key(rc) : rc \in P })

\* three path cells with one value: the 2nd and the 3rd both name the 1st
C3_Witness ==
    /\ pc = "done"
    /\ \E p \in PathCells, q \in PathCells, r \in PathCells :
           /\ ScanPos(p) < ScanPos(q) /\ ScanPos(q) < ScanPos(r)
           /\ Key(p) = Key(q) /\ Key(q) = Key(r)
           /\ p = FirstOf(PathCells, r)
           /\ DuplicateMsgsOf(p) = {}
           /\ \A c \in {q, r} : \E ik \in DuplicateMsgsOf(c) :
                  errors[ik[1]].issues[ik[2]].ref = Addr(p)
    /\ summary["Duplicate breadcrumbs"] >= 2

-----------------------------------------------------------------------------
(* C5 *)

\* C5: a non-empty cell of the path column carries only the duplicate and
\* ends-with-'>' issues, a non-empty cell of any other column only issues of
\* rules 1-10; the registry holds only path-column cells; only the leftmost
\* column named "breadcrumbs" is treated as the path column; "hello world"
\* held first in the path column yields no record.
C5_Exclusive ==
    LET P == PathCells
    IN  /\ \A rc \in P : \A i \in RecordsOf(rc) :
               Range(MsgTexts(errors[i].issues)) \subseteq PathMsgTexts
        /\ \A rc \in OtherCells : \A i \in RecordsOf(rc) :
               Range(MsgTexts(errors[i].issues)) \subseteq GeneralMsgTexts
        /\ DOMAIN breadcrumb_seen \subseteq { Key(rc) : rc \in P }
        /\ Range(breadcrumb_seen) \subseteq { Addr(rc) : rc \in P }
        /\ (last_cell.branch = "breadcrumb" => IsPathCol(last_cell.col))
        /\ (last_cell.branch = "general" => ~IsPathCol(last_cell.col))
        /\ \A rc \in P :
               (TextAt(rc) = T_hw /\ FirstOf(P, rc) = rc) => RecordsOf(rc) = {}

\* two columns are named "breadcrumbs"; the left one holds "hello world"
\* without a record and another cell with a path issue, the right one a cell
\* with issues of the general rules
C5_Witness ==
    /\ pc = "done"
    /\ Cardinality(MatchingCols) = 2
    /\ \E rc \in PathCells : TextAt(rc) = T_hw /\ RecordsOf(rc) = {}
    /\ \E rc \in PathCells : RecordsOf(rc) # {}
    /\ \E rc \in OtherCells : 1 \in MatchingCols /\ rc[2] = 1 /\ RecordsOf(rc) # {}

-----------------------------------------------------------------------------
(* C6 *)

\* the accounting of messages and counters, at every point of the scan:
\* each counter is the number of messages of its category in the issue list,
\* the counters add up to the number of messages, and every scanned cell
\* whose rules select k messages has one record with exactly those k
\* messages in rule order (none when k = 0)
C6_Accounting ==
    /\ \A key \in Range(SummaryKeys) : summary[key] = MessagesIn(key)
    /\ SumOver(summary, Range(SummaryKeys)) = TotalMessages
    /\ \A i \in DOMAIN errors :
           \A j \in DOMAIN errors[i].issues, k \in DOMAIN errors[i].issues :
               j < k => RuleNo(errors[i].issues[j]) < RuleNo(errors[i].issues[k])
    /\ LET P == PathCells
       IN  /\ \A rc \in Scanned :
                  LET want == ExpectedIssues(P, rc)
                      recs == RecordsOf(rc)
                  IN  IF want = << >> THEN recs = {}
                      ELSE /\ Cardinality(recs) = 1
                           /\ \A i \in recs : errors[i].issues = want
           /\ (last_cell.branch # "none" /\ Scanning) =>
                  last_cell.issues
                      = ExpectedIssues(P, << last_cell.row, last_cell.col >>)

HelloWorldCells == { rc \in OtherCells : TextAt(rc) = T_HdW }

\* C6 (as claimed): the accounting above, and "Hello  World " outside the
\* path column gives exactly trailing-whitespace and double-space.
C6_HelloWorldTwoIssues ==
    /\ C6_Accounting
    /\ \A rc \in HelloWorldCells : \A i \in RecordsOf(rc) :
           MsgTexts(errors[i].issues) =
               << "Trailing spaces found", "Double spaces detected" >>

\* C6 (amended): the accounting above, and "Hello  World " outside the path
\* column gives exactly trailing-whitespace, double-space and title-case
\* (its second word starts with an uppercase letter).
C6_HelloWorldThreeIssues ==
    /\ C6_Accounting
    /\ \A rc \in HelloWorldCells :
           /\ RecordsOf(rc) # {}
           /\ \A i \in RecordsOf(rc) :
                  MsgTexts(errors[i].issues) =
                      << "Trailing spaces found", "Double spaces detected",
                         "Title case detected" >>

\* the scan has just passed "Hello  World " outside the path column and
\* three counters went up; another cell had matched five rules
C6_Witness ==
    /\ Scanning
    /\ last_cell.branch = "general"
    /\ last_cell.text = T_HdW
    /\ Len(last_cell.issues) = 3
    /\ \E i \in DOMAIN errors : Len(errors[i].issues) = 5
    /\ summary["Trailing spaces"] >= 1
    /\ summary["Title case issues"] >= 1
    /\ TotalMessages >= 8

-----------------------------------------------------------------------------
(* C7 *)

\* the scanned cell a record belongs to
CellOfRecord(i) == CHOOSE rc \in Scanned : Addr(rc) = errors[i].cell

\* C7: a scanned cell has a record iff it is non-empty and matches at least
\* one applicable rule; no record has an empty message list; no address
\* occurs twice; records are in scan order and hold the raw text; empty and
\* whitespace-only cells have no record and are not in the registry.
C7_Records ==
    /\ LET P == PathCells
       IN  \A rc \in Scanned :
               RecordsOf(rc) # {}
                   <=> (NonEmpty(rc) /\ ExpectedIssues(P, rc) # << >>)
    /\ \A i \in DOMAIN errors :
           /\ errors[i].issues # << >>
           /\ \E rc \in Scanned : Addr(rc) = errors[i].cell
           /\ errors[i].value = TextAt(CellOfRecord(i))
    /\ \A i \in DOMAIN errors, j \in DOMAIN errors :
           i < j => /\ errors[i].cell # errors[j].cell
                    /\ ScanPos(CellOfRecord(i)) < ScanPos(CellOfRecord(j))
    /\ << >> \notin DOMAIN breadcrumb_seen
    /\ \A rc \in Scanned :
           ~NonEmpty(rc) => /\ RecordsOf(rc) = {}
                            /\ Addr(rc) \notin Range(breadcrumb_seen)

\* a completed scan that passed a blank cell in the path column and a
\* whitespace-only cell in another column, and clean non-empty cells, and
\* returned records of both columns
C7_Witness ==
    /\ pc = "done"
    /\ \E rc \in Scanned : IsPathCol(rc[2]) /\ rows[rc[1] + 1][rc[2] + 1] = NaN
    /\ \E rc \in Scanned : ~IsPathCol(rc[2]) /\ TextAt(rc) = T_ws
    /\ \E rc \in OtherCells : RecordsOf(rc) = {}
    /\ \E rc \in PathCells : RecordsOf(rc) = {}
    /\ \E i \in DOMAIN errors, j \in DOMAIN errors :
           i < j /\ CellOfRecord(i)[1] = CellOfRecord(j)[1]

-----------------------------------------------------------------------------
(* C9: repeated calls *)

SameInput(i, j) ==
    runs[i].columns = runs[j].columns /\ runs[i].rows = runs[j].rows

\* C9: two completed calls on the same grid, whatever ran in between and
\* whatever snapshot was stored, returned the same issue list and the same
\* Summary.
C9_SameGridSameResult ==
    \A i \in DOMAIN runs, j \in DOMAIN runs :
        SameInput(i, j) =>
            /\ runs[i].errors = runs[j].errors
            /\ runs[i].summary = runs[j].summary

\* a grid with a duplicate was validated, then another grid, then the first
\* again, with a non-empty snapshot stored in between
C9_Witness ==
    /\ Len(runs) = 3
    /\ SameInput(1, 3)
    /\ ~SameInput(1, 2)
    /\ runs[2].errors # << >>
    /\ LAST_ERRORS # << >>
    /\ runs[3].summary["Duplicate breadcrumbs"] = 1
    /\ breadcrumb_seen # << >>

-----------------------------------------------------------------------------
(* Flask routes *)

AUDIT == << "A","u","d","i","t" >>
S_AuditPadded == << " ","A","u","d","i","t"," " >>
S_Data == << "D","a","t","a" >>

FN_a == << "a",".","x","l","s","x" >>
FN_b == << "b",".","x","l","s","x" >>

\* request.files.get("file"): None, or an uploaded file with its name, whether
\* pandas can open it, its sheet names and the Audit sheet's grid
NoUpload ==
    [ present |-> FALSE, filename |-> << >>, readable |-> FALSE,
      sheets |-> << >>, columns |-> << >>, rows |-> << >> ]
Workbook(fn, readable, sheets, cols, grid) ==
    [ present |-> TRUE, filename |-> fn, readable |-> readable,
      sheets |-> sheets, columns |-> cols, rows |-> grid ]

MaxWebRows == 2   \* rows of an uploaded Audit sheet

WebRowPool == { << T_AB, T_HW >>, << T_Cgt, T_mix >> }
WebGrids == GridsOf(WebRowPool, MaxWebRows)

FilePool ==
    { NoUpload,
      Workbook(<< >>, TRUE, << AUDIT >>, << H_Bread, H_Name >>, << >>),
      Workbook(T_ws, TRUE, << AUDIT >>, << H_Bread, H_Name >>, << >>),
      Workbook(FN_a, FALSE, << >>, << >>, << >>),
      Workbook(FN_b, TRUE, << S_Data >>, << H_Bread, H_Name >>, << >>),
      Workbook(FN_b, TRUE, << S_Data, S_AuditPadded >>,
               << H_Bread, H_Name >>, << << T_Cgt, T_mix >> >>) }
    \cup { Workbook(fn, TRUE, << S_Data, AUDIT >>, << H_Bread, H_Name >>, grid) :
             fn \in {FN_a, FN_b}, grid \in WebGrids }

NoSummary == << >>

\* index() on a POST: what it stores in app.config and what it renders.
\* pd.ExcelFile raises on an unreadable file; pd.read_excel raises when no
\* sheet is named exactly "Audit".
index_post_store_always(file, last_errors, last_filename) ==
    LET shown == IF file.present /\ file.readable /\ AUDIT \in Range(file.sheets)
                 THEN validate_audit_sheet(file.columns, file.rows).errors
                 ELSE << >>
    IN  [ LAST_ERRORS |-> shown, LAST_FILENAME |-> file.filename,
          errors |-> shown, summary |-> NoSummary, message |-> "None",
          filename |-> file.filename, had_run |-> TRUE ]
index_post(file, last_errors, last_filename) ==
    LET keep(message, filename) ==
            [ LAST_ERRORS |-> last_errors, LAST_FILENAME |-> last_filename,
              errors |-> << >>, summary |-> NoSummary, message |-> message,
              filename |-> filename, had_run |-> TRUE ]
    IN  IF ~file.present \/ file.filename = << >> \/ Strip(file.filename) = << >>
        THEN keep("Please upload an Excel file.", NoFile)
        ELSE IF ~file.readable
        THEN keep("Error reading file: {e}", file.filename)
        ELSE IF AUDIT \notin { Strip(file.sheets[i]) : i \in DOMAIN file.sheets }
        THEN keep("Audit sheet not found in the file", file.filename)
        ELSE IF AUDIT \notin Range(file.sheets)
        THEN keep("Error reading file: {e}", file.filename)
        ELSE LET res == validate_audit_sheet(file.columns, file.rows)
             IN  [ LAST_ERRORS |-> res.errors, LAST_FILENAME |-> file.filename,
                   errors |-> res.errors, summary |-> res.summary,
                   message |-> IF res.errors = << >> THEN "No issues found."
                               ELSE "None",
                   filename |-> file.filename, had_run |-> TRUE ]

PlaceholderRow ==
    [ cell |-> << "N/A" >>, value |-> << "N/A" >>,
      issues |-> << Msg("No issues found") >> ]

\* download(): the rows appended under the header row
download_rows(last_errors) ==
    IF last_errors # << >>
    THEN [ i \in DOMAIN last_errors |->
             [ cell |-> last_errors[i].cell, value |-> last_errors[i].value,
               issues |-> last_errors[i].issues ] ]
    ELSE << PlaceholderRow >>

\* whether the upload's validation completes
Completes(file) ==
    /\ file.present
    /\ Strip(file.filename) # << >>
    /\ file.readable
    /\ AUDIT \in Range(file.sheets)

\* POST /
IndexPost ==
    /\ pc = "serving"
    /\ \E file \in FilePool :
           LET out == index_post(file, LAST_ERRORS, LAST_FILENAME)
           IN  /\ LAST_ERRORS' = out.LAST_ERRORS
               /\ LAST_FILENAME' = out.LAST_FILENAME
               /\ response' = [ route |-> "index", errors |-> out.errors,
                                summary |-> out.summary, message |-> out.message,
                                filename |-> out.filename, had_run |-> out.had_run,
                                rows |-> << >> ]
               /\ uploads' =
                      IF Completes(file)
                      THEN [ errors |-> validate_audit_sheet(file.columns,
                                                             file.rows).errors,
                             filename |-> file.filename, latest_failed |-> FALSE ]
                      ELSE [ uploads EXCEPT !.latest_failed = TRUE ]
    /\ UNCHANGED << scanVars, funVars >>

\* GET /
IndexGet ==
    /\ pc = "serving"
    /\ response' = [ route |-> "index", errors |-> << >>, summary |-> NoSummary,
                     message |-> "None", filename |-> NoFile, had_run |-> FALSE,
                     rows |-> << >> ]
    /\ UNCHANGED << scanVars, funVars, LAST_ERRORS, LAST_FILENAME, uploads >>

\* GET /download
Download ==
    /\ pc = "serving"
    /\ response' = [ route |-> "download", errors |-> << >>, summary |-> NoSummary,
                     message |-> "None", filename |-> NoFile, had_run |-> FALSE,
                     rows |-> download_rows(LAST_ERRORS) ]
    /\ UNCHANGED << scanVars, funVars, LAST_ERRORS, LAST_FILENAME, uploads >>

InitWeb ==
    /\ pc = "serving"
    /\ columns = << >>
    /\ rows = << >>
    /\ row_idx = 0
    /\ col_idx = 0
    /\ breadcrumb_col = NoColumn
    /\ errors = << >>
    /\ summary = summary_zero
    /\ breadcrumb_seen = << >>
    /\ last_cell = NoCell
    /\ runs = << >>
    /\ LAST_ERRORS = << >>
    /\ LAST_FILENAME = NoFile
    /\ response = [ route |-> "none", errors |-> << >>, summary |-> NoSummary,
                    message |-> "None", filename |-> NoFile, had_run |-> FALSE,
                    rows |-> << >> ]
    /\ uploads = [ errors |-> << >>, filename |-> NoFile, latest_failed |-> FALSE ]
    /\ arg = << >>
    /\ ret = << >>

NextWeb == IndexPost \/ IndexGet \/ Download

SpecWeb == InitWeb /\ [][NextWeb]_vars

\* C10: the snapshot is the result and the filename of the latest upload
\* whose validation completed (empty and None before the first); a failed
\* upload renders an empty result and leaves the snapshot alone; /download
\* exports the snapshot's records, and the placeholder row only when the
\* snapshot is empty.
C10_Snapshot ==
    /\ LAST_ERRORS = uploads.errors
    /\ LAST_FILENAME = uploads.filename
    /\ (response.route = "index" /\ response.had_run /\ uploads.latest_failed)
           => response.errors = << >>
    /\ response.route = "download" =>
           /\ (uploads.errors = << >> <=> response.rows = << PlaceholderRow >>)
           /\ uploads.errors # << >> =>
                  /\ Len(response.rows) = Len(uploads.errors)
                  /\ \A i \in DOMAIN response.rows :
                         /\ response.rows[i].cell = uploads.errors[i].cell
                         /\ response.rows[i].value = uploads.errors[i].value
                         /\ response.rows[i].issues = uploads.errors[i].issues

\* after a completed upload with issues and then a failed one, /download
\* exported the earlier records
C10_Witness ==
    /\ response.route = "download"
    /\ uploads.latest_failed
    /\ LAST_FILENAME = FN_a
    /\ \E i \in DOMAIN response.rows :
           /\ response.rows[i].cell = << "A", "3" >>
           /\ response.rows[i].issues = << DuplicateMsg(<< "A", "2" >>) >>

-----------------------------------------------------------------------------
(* The helpers on their own *)

MaxIndex == 705     \* largest column index tried
MaxTextLen == 4     \* longest text tried on the title-case rule

TitleChars == { "A", "a", " ", "1", "-", "cjk" }

RECURSIVE TextsOf(_, _)
TextsOf(chars, n) ==
    IF n = 0 THEN { << >> }
    ELSE LET shorter == TextsOf(chars, n - 1)
         IN  shorter \cup
             { Append(t, ch) : t \in { u \in shorter : Len(u) = n - 1 },
                               ch \in chars }

InitFun ==
    /\ columns = << >>
    /\ rows = << >>
    /\ row_idx = 0
    /\ col_idx = 0
    /\ breadcrumb_col = NoColumn
    /\ errors = << >>
    /\ summary = summary_zero
    /\ breadcrumb_seen = << >>
    /\ last_cell = NoCell
    /\ runs = << >>
    /\ LAST_ERRORS = << >>
    /\ LAST_FILENAME = NoFile
    /\ response = NoResponse
    /\ uploads = [ errors |-> << >>, filename |-> NoFile, latest_failed |-> FALSE ]
    /\ ret = << >>

InitLabel ==
    /\ InitFun
    /\ pc = "call_label"
    /\ arg \in 0 .. MaxIndex

\* col_index_to_letter(arg)
CallLabel ==
    /\ pc = "call_label"
    /\ ret' = col_index_to_letter(arg)
    /\ pc' = "ret_label"
    /\ UNCHANGED << scanVarsButPc, webVars, arg >>

SpecLabel == InitLabel /\ [][CallLabel]_vars

InitTitle ==
    /\ InitFun
    /\ pc = "call_title"
    /\ arg \in TextsOf(TitleChars, MaxTextLen)

\* is_title_case_issue(arg)
CallTitle ==
    /\ pc = "call_title"
    /\ ret' = << is_title_case_issue(arg) >>
    /\ pc' = "ret_title"
    /\ UNCHANGED << scanVarsButPc, webVars, arg >>

SpecTitle == InitTitle /\ [][CallTitle]_vars

-----------------------------------------------------------------------------
(* C4 *)

\* the algorithm as the specification words it: emit letter (index mod 26),
\* set index to index / 26 - 1, until index is exhausted; then reverse
RECURSIVE LabelDigits(_, _)
LabelDigits(index, letters) ==
    IF index < 0 THEN letters
    ELSE LabelDigits((index \div 26) - 1,
                     Append(letters, UpperSeq[(index % 26) + 1]))
columnLabel(index) == Reverse(LabelDigits(index, << >>))

LetterNo(ch) == CHOOSE i \in DOMAIN UpperSeq : UpperSeq[i] = ch

\* shorter labels first, then alphabetical
LabelLess(a, b) ==
    \/ Len(a) < Len(b)
    \/ /\ Len(a) = Len(b)
       /\ \E i \in DOMAIN a :
              /\ LetterNo(a[i]) < LetterNo(b[i])
              /\ \A j \in 1 .. (i - 1) : a[j] = b[j]

\* C4: the label is a non-empty string over A..Z; 0, 25, 26, 701 and 702
\* give A, Z, AA, ZZ and AAA; the label of every smaller index is strictly
\* smaller (so the labels are pairwise different); the label is the one
\* the specification's algorithm gives.
C4_ColumnLabel ==
    pc = "ret_label" =>
        /\ ret # << >>
        /\ Range(ret) \subseteq AsciiUpper
        /\ (arg = 0 => ret = << "A" >>)
        /\ (arg = 25 => ret = << "Z" >>)
        /\ (arg = 26 => ret = << "A", "A" >>)
        /\ (arg = 701 => ret = << "Z", "Z" >>)
        /\ (arg = 702 => ret = << "A", "A", "A" >>)
        /\ \A j \in 0 .. MaxIndex :
               j < arg => LabelLess(col_index_to_letter(j), ret)
        /\ ret = columnLabel(arg)

\* the first three-letter label has been computed
C4_Witness ==
    /\ pc = "ret_label"
    /\ arg = 702
    /\ ret = << "A", "A", "A" >>

-----------------------------------------------------------------------------
(* C8 *)

\* the rule as claimed: two or more words, and the first alphabetic
\* character of the first word is not uppercase or the first alphabetic
\* character of a later word is not lowercase; words without an alphabetic
\* character are ignored
TitleCaseViolation(text) ==
    LET words == Split(Strip(text))
    IN  /\ Len(words) >= 2
        /\ \/ /\ first_alpha_char(words[1]) # None
              /\ ~IsUpper(first_alpha_char(words[1]))
           \/ \E k \in 2 .. Len(words) :
                  /\ first_alpha_char(words[k]) # None
                  /\ ~IsLower(first_alpha_char(words[k]))

\* C8 (as claimed): is_title_case_issue reports a violation exactly when
\* the rule above is violated.
C8_TitleCaseExact ==
    pc = "ret_title" => ret = << TitleCaseViolation(arg) >>

=============================================================================
